---- MODULE Spec2Model ----
(***************************************************************************)
(* Roolts backend: the code executor (routes/executor.py, execute_code)    *)
(* and the integrated terminal (routes/terminal.py, TerminalSession and    *)
(* its routes), as a state machine.                                        *)
(*                                                                         *)
(* Python strings are sequences of chunks: '' is <<>>, 'abc' is <<"abc">>, *)
(* a + b is a \o b.  A file name or a command is the sequence of the       *)
(* tokens the code looks at ("cd", " ", "..", "/", ".py", ...).            *)
(***************************************************************************)
EXTENDS Integers, Sequences, FiniteSets, TLC

VARIABLES
    surface,    \* which route module the behaviour exercises
    er,         \* er[r]: the locals of the execute_code invocation in slot r
    dirs,       \* the temporary directories that exist on the host
    files,      \* the source files written and still on the host
    pinned,     \* the directories shutil.rmtree cannot remove
    tr,         \* tr[t]: the locals of the terminal request of caller t
    terminal_sessions,  \* session id -> its TerminalSession object, or NoObj
    heap,       \* the TerminalSession objects
    now,        \* time.time()
    calls       \* terminal requests received so far

evars == <<er, dirs, files, pinned>>
tvars == <<tr, terminal_sessions, heap, now, calls>>
vars == <<surface, er, dirs, files, pinned, tr, terminal_sessions, heap, now, calls>>

----------------------------------------------------------------------------
(* Bounds of the model. *)

MaxReqs == 2        \* execute_code invocations in flight
MaxTmp == 2         \* directory names tempfile.mkdtemp draws from
MaxChildren == 1    \* processes a step's process spawns
MaxCallers == 2     \* terminal requests in flight
MaxCalls == 2       \* terminal requests received in a behaviour
MaxObjs == 2        \* TerminalSession objects ever created
MaxClock == 1       \* ticks of the clock
Quick == 40         \* seconds a process that finishes in time runs
Slow == 90          \* seconds a process that overruns an executor step runs

Reqs == 1..MaxReqs
Callers == 1..MaxCallers
TmpNames == 1..MaxTmp
NoDir == 1 - 1      \* temp_dir before mkdtemp has returned

(* A process that never exits on its own. *)
Forever == 1000 * 1000
Durations == {Quick, Slow, Forever}

----------------------------------------------------------------------------
(* Program constants of routes/executor.py. *)

PythonTimeout == 60
NodeTimeout == 60
CompileTimeout == 60
JavaRunTimeout == 60
MessageLimit == 60

----------------------------------------------------------------------------
(* Values. *)

EmptyStr == <<>>
StdStreams == {[out |-> EmptyStr, err |-> EmptyStr],
               [out |-> <<"o">>, err |-> <<"e">>]}
ExitCodes == {0, 1}

(* request.get_json(): the parsed body, a dict with some of its keys       *)
(* missing, or None for a JSON null.  The requests the model submits.      *)
Missing == <<"<missing>">>
Body(c, l, f) == [isDict |-> TRUE, code |-> c, language |-> l, filename |-> f]
NullBody == [isDict |-> FALSE, code |-> Missing, language |-> Missing,
             filename |-> Missing]
PlainCode == <<"print">>
PackagedCode == <<"package", "pkg", ";", "class">>
Bodies ==
    {NullBody,
     Body(Missing, Missing, Missing),
     Body(EmptyStr, <<"java">>, <<"Foo">>),
     Body(PlainCode, Missing, Missing),
     Body(PlainCode, <<"python">>, <<"app", ".py">>),
     Body(PlainCode, <<"python">>, <<"..", "/", "x", ".py">>),
     Body(PlainCode, <<"javascript">>, EmptyStr),
     Body(PlainCode, <<"js">>, <<"Foo">>),
     Body(PlainCode, <<"java">>, Missing),
     Body(PackagedCode, <<"java">>, <<"Foo">>),
     Body(PlainCode, <<"ruby">>, <<"Foo">>)}

----------------------------------------------------------------------------
(* Pure helpers of execute_code. *)

EndsWith(s, ext) == Len(s) > 0 /\ s[Len(s)] = ext

(* data.get(key, default) on the request body. *)
BodyGet(body, key, default) == IF body[key] = Missing THEN default ELSE body[key]

(* executor.py:38 *)
PythonFileName(filename) ==
    IF filename # EmptyStr /\ EndsWith(filename, ".py")
    THEN filename ELSE <<"script", ".py">>

(* executor.py:57 *)
NodeFileName(filename) ==
    IF filename # EmptyStr /\ EndsWith(filename, ".js")
    THEN filename ELSE <<"script", ".js">>

(* executor.py:75-80 *)
JavaFileName(filename) ==
    IF filename # EmptyStr
    THEN IF ~EndsWith(filename, ".java") THEN filename \o <<".java">> ELSE filename
    ELSE <<"Main", ".java">>

(* A final else that takes every other language for java. *)
AnyLanguage(language) == TRUE

(* executor.py:37, 56, 74: the languages that have a branch. *)
IsSupported(language) == language \in {"python", "javascript", "js", "java"}

SourceFileName(language, filename) ==
    CASE language = "python" -> PythonFileName(filename)
      [] language \in {"javascript", "js"} -> NodeFileName(filename)
      [] OTHER -> JavaFileName(filename)

(* re.search(r'^\s*package\s+([a-zA-Z0-9_.]+)\s*;', code, re.MULTILINE):   *)
(* the name of the first package declaration that starts a line, or None   *)
(* (the empty sequence).                                                   *)
PackageDecls(code) ==
    {i \in 1..Len(code) :
        /\ code[i] = "package"
        /\ i + 2 <= Len(code)
        /\ code[i + 2] = ";"
        /\ (i = 1 \/ code[i - 1] = "\n")}

PackageOf(code) ==
    IF PackageDecls(code) = {} THEN EmptyStr
    ELSE LET i == CHOOSE j \in PackageDecls(code) :
                      \A k \in PackageDecls(code) : j <= k
         IN <<code[i + 1]>>

IsExt(tok) == tok \in {".py", ".js", ".java"}

(* os.path.splitext(fname)[0] *)
SplitExtRoot(fname) ==
    IF Len(fname) > 1 /\ IsExt(fname[Len(fname)])
    THEN SubSeq(fname, 1, Len(fname) - 1) ELSE fname

(* A run target that leaves the package out. *)
BareClassName(code, fname) == SplitExtRoot(fname)

(* executor.py:86-90 *)
FullClassName(code, fname) ==
    IF PackageOf(code) # EmptyStr
    THEN PackageOf(code) \o <<".">> \o SplitExtRoot(fname)
    ELSE SplitExtRoot(fname)

(* A pipeline that runs every language without compiling it. *)
RunWithoutCompile(language) == "run"

(* The first step of a language's pipeline. *)
FirstStep(language) == IF language = "java" THEN "compile" ELSE "run"

(* Whether subprocess.run is given a timeout for the step, and which. *)
HasTimeout(language, step) == TRUE

(* A java run step given half the time the message announces. *)
ShorterRunTimeout(language, step) ==
    IF language = "java" /\ step = "run" THEN JavaRunTimeout \div 2
    ELSE PythonTimeout

StepTimeout(language, step) ==
    CASE language = "python" -> PythonTimeout
      [] language \in {"javascript", "js"} -> NodeTimeout
      [] language = "java" /\ step = "compile" -> CompileTimeout
      [] OTHER -> JavaRunTimeout

(* The step's process finishes before subprocess.run gives up on it. *)
FinishesInTime(language, step, dur) ==
    IF HasTimeout(language, step) THEN dur <= StepTimeout(language, step)
    ELSE dur # Forever

(* The JSON responses of execute_code. *)
NoResp == [status |-> 0, keys |-> {}, success |-> FALSE,
           output |-> EmptyStr, error |-> EmptyStr]

ErrorResp(status, message) ==
    [status |-> status, keys |-> {"success", "error"}, success |-> FALSE,
     output |-> EmptyStr, error |-> message]

(* A result that counts anything written to stderr as a failure. *)
StderrMeansFailure(success, output, error) ==
    [status |-> 200, keys |-> {"success", "output", "error"},
     success |-> success /\ error = <<>>, output |-> output, error |-> error]

ResultResp(success, output, error) ==
    [status |-> 200, keys |-> {"success", "output", "error"},
     success |-> success, output |-> output, error |-> error]

(* Empty code raised as an exception and reported as a fault. *)
NoCodeAsFault == ErrorResp(500, <<"No code provided">>)

NoCodeResp == ErrorResp(400, <<"No code provided">>)

(* An unsupported language raised as an exception and caught as a fault. *)
UnsupportedAsFault(language) == ErrorResp(500, <<"Unsupported language: ", language>>)

UnsupportedResp(language) == ErrorResp(400, <<"Unsupported language: ", language>>)
TimeoutResp == ErrorResp(408, <<"Execution timed out (", ToString(MessageLimit), "s limit)">>)
FaultResp(message) == ErrorResp(500, message)

(* The messages of the faults the model injects (str(e)). *)
WriteFault == <<"[Errno 28] No space left on device">>
SpawnFault == <<"[Errno 2] No such file or directory">>

NoStreams == [out |-> EmptyStr, err |-> EmptyStr]
NoRc == 0 - 1       \* no process has returned yet

IdleReq ==
    [pc |-> "idle", language |-> "python", code |-> EmptyStr,
     filename |-> EmptyStr, temp_dir |-> NoDir, fname |-> EmptyStr,
     target |-> EmptyStr, step |-> "none", dur |-> 0, children |-> 0,
     nCompile |-> 0, nRun |-> 0, elapsed |-> 0, timedOut |-> "none",
     partial |-> NoStreams, last |-> NoStreams, lastRc |-> 0,
     compileRc |-> NoRc, fault |-> "none", resp |-> NoResp,
     escaped |-> FALSE, left |-> FALSE]

----------------------------------------------------------------------------
(* execute_code, step by step. *)

Set(r, rec) == er' = [er EXCEPT ![r] = rec]

(* A workspace at one fixed path for every request. *)
FixedTempDir(existing) == CHOOSE d \in TmpNames : \A e \in TmpNames : d <= e

(* tempfile.mkdtemp(prefix='roolts_exec_'): a directory name that does not *)
(* exist yet.  Names are opaque, so the model takes the least free one.    *)
Mkdtemp(existing) ==
    CHOOSE d \in TmpNames \ existing : \A e \in TmpNames \ existing : d <= e

(* executor.py:19-30: parse the body, reject empty code, create the        *)
(* workspace.  All of it runs before the try block.                        *)
ExecReceive(r, body) ==
    /\ surface = "ephemeral"
    /\ er[r].pc = "idle"
    /\ IF ~body.isDict
       THEN \* data is None: data.get raises AttributeError out of the handler
            /\ Set(r, [er[r] EXCEPT !.pc = "done", !.escaped = TRUE,
                                    !.fault = "parse"])
            /\ UNCHANGED <<dirs, files, pinned>>
       ELSE LET code == BodyGet(body, "code", EmptyStr)
                language == BodyGet(body, "language", <<"python">>)[1]
                filename == BodyGet(body, "filename", EmptyStr)
                req == [er[r] EXCEPT !.code = code, !.language = language,
                                     !.filename = filename]
            IN IF code = EmptyStr
               THEN /\ Set(r, [req EXCEPT !.pc = "done", !.resp = NoCodeResp])
                    /\ UNCHANGED <<dirs, files, pinned>>
               ELSE \/ /\ TmpNames \ dirs # {}
                       /\ LET d == Mkdtemp(dirs) IN
                          /\ dirs' = dirs \cup {d}
                          /\ Set(r, [req EXCEPT !.pc = "try", !.temp_dir = d])
                       /\ UNCHANGED <<files, pinned>>
                    \/ \* tempfile.mkdtemp raises (no usable name, no space)
                       /\ Set(r, [req EXCEPT !.pc = "done", !.escaped = TRUE,
                                             !.fault = "mkdtemp"])
                       /\ UNCHANGED <<dirs, files, pinned>>
    /\ UNCHANGED <<surface, tvars>>

(* A directory of the host that is not a workspace. *)
Elsewhere == 0 - 1

(* os.path.join(temp_dir, fname) and open(file_path, 'w'): the directory   *)
(* the file is created in.  An absolute fname replaces temp_dir, a leading *)
(* ".." climbs out of it.                                                  *)
FileDir(temp_dir, fname) ==
    IF Len(fname) > 0 /\ fname[1] \in {"/", ".."} THEN Elsewhere ELSE temp_dir

(* executor.py:32-41, 56-60, 74-95, 125-126: the language branch up to the *)
(* source file being written.                                              *)
ExecWriteSource(r) ==
    /\ surface = "ephemeral"
    /\ er[r].pc = "try"
    /\ LET req == er[r] IN
       IF ~IsSupported(req.language)
       THEN /\ Set(r, [req EXCEPT !.pc = "finally",
                                  !.resp = UnsupportedResp(req.language)])
            /\ UNCHANGED files
       ELSE LET fname == SourceFileName(req.language, req.filename)
                target == IF req.language = "java"
                          THEN FullClassName(req.code, fname) ELSE EmptyStr
            IN \/ /\ files' = files \cup {[dir |-> FileDir(req.temp_dir, fname),
                                               name |-> fname]}
                  /\ Set(r, [req EXCEPT !.pc = "ready", !.fname = fname,
                                        !.target = target,
                                        !.step = FirstStep(req.language)])
               \/ \* open() or write() raises
                  /\ Set(r, [req EXCEPT !.pc = "finally", !.fname = fname,
                                        !.target = target, !.fault = "write",
                                        !.resp = FaultResp(WriteFault)])
                  /\ UNCHANGED files
    /\ UNCHANGED <<surface, dirs, pinned, tvars>>

(* executor.py:45-51, 63-69, 100-106, 114-120: subprocess.run starts the   *)
(* step's process, which will run for dur seconds if left alone.           *)
ExecStartStep(r) ==
    /\ surface = "ephemeral"
    /\ er[r].pc = "ready"
    /\ LET req == er[r]
           counted == [req EXCEPT
                         !.nCompile = @ + (IF req.step = "compile" THEN 1 ELSE 0),
                         !.nRun = @ + (IF req.step = "run" THEN 1 ELSE 0)]
       IN \/ \E dur \in Durations :
                Set(r, [counted EXCEPT !.pc = "wait", !.dur = dur])
          \/ \* Popen raises: the executable is missing
             Set(r, [req EXCEPT !.pc = "finally", !.fault = "spawn",
                                !.resp = FaultResp(SpawnFault)])
    /\ UNCHANGED <<surface, dirs, files, pinned, tvars>>

(* The user's program starts a process of its own, which may hold the      *)
(* workspace (its working directory) open.                                 *)
ExecSpawnChild(r) ==
    /\ surface = "ephemeral"
    /\ er[r].pc = "wait"
    /\ er[r].step = "run"
    /\ er[r].children < MaxChildren
    /\ Set(r, [er[r] EXCEPT !.children = @ + 1])
    /\ \/ pinned' = pinned \cup {er[r].temp_dir}
       \/ UNCHANGED pinned
    /\ UNCHANGED <<surface, dirs, files, tvars>>

(* A compile gate that takes only a signal for a failure. *)
CompileFailedOnSignal(rc) == rc < 0

(* executor.py:108: if compile_result.returncode != 0 *)
CompileFailed(rc) == rc # 0

(* executor.py:109-111 *)
CompileErrorResp(compile_result) ==
    ResultResp(FALSE, compile_result.out,
               <<"Compilation Error:\n">> \o compile_result.err)

(* The step's process exits in time: executor.py:52-54, 70-72, 108-123.    *)
ExecStepExit(r, rc, streams) ==
    /\ surface = "ephemeral"
    /\ er[r].pc = "wait"
    /\ FinishesInTime(er[r].language, er[r].step, er[r].dur)
    /\ LET req == [er[r] EXCEPT !.elapsed = @ + er[r].dur, !.dur = 0,
                                !.compileRc = IF er[r].step = "compile"
                                              THEN rc ELSE @]
       IN IF req.step = "compile"
          THEN IF CompileFailed(rc)
               THEN Set(r, [req EXCEPT !.pc = "finally",
                       !.last = streams, !.lastRc = rc,
                       !.resp = CompileErrorResp(streams)])
               ELSE \* compile_result is not read again
                    Set(r, [req EXCEPT !.pc = "ready", !.step = "run"])
          ELSE Set(r, [req EXCEPT !.pc = "finally",
                  !.last = streams, !.lastRc = rc,
                  !.resp = ResultResp(rc = 0, streams.out, streams.err)])
    /\ UNCHANGED <<surface, dirs, files, pinned, tvars>>

(* The step's process overruns: subprocess.run kills it (that process      *)
(* only), waits for it, and raises TimeoutExpired carrying the output read *)
(* so far; executor.py:134-138 turns it into the 408 response.             *)
ExecStepTimeout(r, streams) ==
    /\ surface = "ephemeral"
    /\ er[r].pc = "wait"
    /\ ~FinishesInTime(er[r].language, er[r].step, er[r].dur)
    /\ HasTimeout(er[r].language, er[r].step)
    /\ Set(r, [er[r] EXCEPT !.pc = "finally", !.dur = 0,
                !.elapsed = @ + StepTimeout(er[r].language, er[r].step),
                !.timedOut = er[r].step, !.partial = streams,
                !.resp = TimeoutResp])
    /\ UNCHANGED <<surface, dirs, files, pinned, tvars>>

(* The step's process overruns while a process it started holds the pipes  *)
(* subprocess.run captures: where subprocess.run, after the kill, reads    *)
(* the pipes to their end (communicate() with no timeout, its Windows      *)
(* branch), the call does not return while that process keeps them open.   *)
ExecStepTimeoutBlocked(r, streams) ==
    /\ surface = "ephemeral"
    /\ er[r].pc = "wait"
    /\ ~FinishesInTime(er[r].language, er[r].step, er[r].dur)
    /\ HasTimeout(er[r].language, er[r].step)
    /\ er[r].children > 0
    /\ Set(r, [er[r] EXCEPT !.pc = "drain", !.dur = 0,
                !.elapsed = @ + StepTimeout(er[r].language, er[r].step),
                !.partial = streams])
    /\ UNCHANGED <<surface, dirs, files, pinned, tvars>>

(* The processes holding the pipes exit, if they ever do: communicate()    *)
(* returns and TimeoutExpired reaches executor.py:134-138.                 *)
ExecPipesClosed(r) ==
    /\ surface = "ephemeral"
    /\ er[r].pc = "drain"
    /\ Set(r, [er[r] EXCEPT !.pc = "finally", !.children = 0,
                !.timedOut = er[r].step, !.resp = TimeoutResp])
    /\ UNCHANGED <<surface, dirs, files, pinned, tvars>>

(* os.rmdir in place of rmtree: a directory with a file in it stays. *)
RmdirRaises(d) == d \in pinned \/ \E f \in files : f.dir = d

(* shutil.rmtree(temp_dir): the directory and what is in it are removed,   *)
(* unless something holds it, and then rmtree raises.                      *)
RmtreeRaises(d) == d \in pinned

(* executor.py:144-149: the finally block, then the response is returned.  *)
ExecFinally(r) ==
    /\ surface = "ephemeral"
    /\ er[r].pc = "finally"
    /\ IF RmtreeRaises(er[r].temp_dir)
       THEN UNCHANGED <<dirs, files>>     \* except: pass
       ELSE /\ dirs' = dirs \ {er[r].temp_dir}
            /\ files' = {f \in files : f.dir # er[r].temp_dir}
    /\ Set(r, [er[r] EXCEPT !.pc = "done",
                            !.left = (er[r].temp_dir \in dirs')])
    /\ UNCHANGED <<surface, pinned, tvars>>

----------------------------------------------------------------------------
(* routes/terminal.py: paths.  A path string is its sequence of tokens     *)
(* ("/" and names); a directory of the host is its sequence of names.      *)

HostDirs == {<<>>, <<"app">>, <<"app", "sub">>, <<"tmp">>}
ServerCwd == <<"app">>      \* os.getcwd() of the server process

NotSep(tok) == tok # "/"

(* os.path.isabs *)
IsAbs(path) == Len(path) > 0 /\ path[1] = "/"

(* The string of a directory: "/" + "/".join(names). *)
RECURSIVE PathString(_)
PathString(names) ==
    IF names = <<>> THEN <<"/">>
    ELSE IF Len(names) = 1 THEN <<"/", names[1]>>
    ELSE PathString(SubSeq(names, 1, Len(names) - 1)) \o <<"/", names[Len(names)]>>

(* os.path.normpath on the names of a path: "." dropped, ".." pops.        *)
RECURSIVE NormNames(_, _)
NormNames(done, rest) ==
    IF rest = <<>> THEN done
    ELSE IF rest[1] = "." THEN NormNames(done, Tail(rest))
    ELSE IF rest[1] = ".."
         THEN NormNames(IF done = <<>> THEN done
                        ELSE SubSeq(done, 1, Len(done) - 1), Tail(rest))
    ELSE NormNames(Append(done, rest[1]), Tail(rest))

(* The names of a path string, relative ones taken from the server's cwd.  *)
FullNames(path) ==
    IF IsAbs(path) THEN SelectSeq(path, NotSep)
    ELSE ServerCwd \o SelectSeq(path, NotSep)

(* os.path.abspath *)
AbsPath(path) == PathString(NormNames(<<>>, FullNames(path)))

(* os.path.isdir: the kernel walks the path, and every directory on the    *)
(* way has to exist.                                                       *)
RECURSIVE WalkOk(_, _)
WalkOk(at, rest) ==
    IF at \notin HostDirs THEN FALSE
    ELSE IF rest = <<>> THEN TRUE
    ELSE IF rest[1] = "." THEN WalkOk(at, Tail(rest))
    ELSE IF rest[1] = ".."
         THEN WalkOk(IF at = <<>> THEN at ELSE SubSeq(at, 1, Len(at) - 1), Tail(rest))
    ELSE WalkOk(Append(at, rest[1]), Tail(rest))

(* A check that takes any non-empty path for a directory. *)
NonEmptyPath(path) == path # EmptyStr

IsDir(path) == path # EmptyStr /\ WalkOk(<<>>, FullNames(path))

(* os.path.join(a, b) *)
PathJoin(a, b) ==
    IF IsAbs(b) THEN b
    ELSE IF a = EmptyStr \/ a[Len(a)] = "/" THEN a \o b
    ELSE a \o <<"/">> \o b

(* os.path.dirname: the string up to its last "/", without that "/"        *)
(* unless nothing else is left.                                            *)
LastSep(path) ==
    IF \E i \in 1..Len(path) : path[i] = "/"
    THEN CHOOSE i \in 1..Len(path) :
            path[i] = "/" /\ \A j \in (i + 1)..Len(path) : path[j] # "/"
    ELSE 0

RECURSIVE RStripSep(_)
RStripSep(path) ==
    IF path # <<>> /\ path[Len(path)] = "/"
    THEN RStripSep(SubSeq(path, 1, Len(path) - 1)) ELSE path

DirName(path) ==
    LET head == SubSeq(path, 1, LastSep(path))
    IN IF head # <<>> /\ RStripSep(head) = <<>> THEN head ELSE RStripSep(head)

(* str.strip() and str.lower() on a command's tokens. *)
RECURSIVE LStrip(_)
LStrip(s) == IF s # <<>> /\ s[1] = " " THEN LStrip(Tail(s)) ELSE s

RECURSIVE RStrip(_)
RStrip(s) ==
    IF s # <<>> /\ s[Len(s)] = " " THEN RStrip(SubSeq(s, 1, Len(s) - 1)) ELSE s

Strip(s) == RStrip(LStrip(s))

LowerTok(tok) == IF tok = "CD" THEN "cd" ELSE tok
Lower(s) == [i \in 1..Len(s) |-> LowerTok(s[i])]

(* command.strip().lower().startswith('cd ') *)
IsCd(command) ==
    LET c == Lower(Strip(command))
    IN Len(c) >= 2 /\ c[1] = "cd" /\ c[2] = " "

(* command.strip()[3:].strip() *)
CdTarget(command) ==
    LET c == Strip(command) IN Strip(SubSeq(c, 3, Len(c)))

----------------------------------------------------------------------------
(* routes/terminal.py: the sessions and the requests. *)

TerminalTimeout == 120
HistoryLimit == 50

SessionIds == {"default", "s2"}
ObjIds == 1..MaxObjs
NoObj == 1 - 1      \* no TerminalSession
NoneVal == <<"<None>">>         \* Python's None (JSON null)
ProjectDir == <<"/", "app">>    \* dirname(dirname(abspath(__file__)))

DestructiveCommand == <<"rm", " ", "-rf", " ", "/">>
Commands ==
    {<<"dir">>, DestructiveCommand, <<" ">>,
     <<"cd", " ", "sub">>, <<"CD", " ", "..">>, <<"cd", " ", "nowhere">>,
     <<"cd", " ", "/", "tmp">>, <<"cd", " ", "/", "nowhere">>}
CwdArgs == {EmptyStr, <<"/", "tmp">>, <<"sub">>, <<"/", "nowhere">>}

(* The Command Risk Validator of the design: the severity of a command.    *)
ValidateSeverity(command) ==
    IF Strip(command) = DestructiveCommand THEN "block" ELSE "none"

ExecuteReq(c, sid) ==
    [endpoint |-> "execute", command |-> c, sessionId |-> sid, cwd |-> EmptyStr]
SetCwdReq(w, sid) ==
    [endpoint |-> "set_cwd", command |-> EmptyStr, sessionId |-> sid, cwd |-> w]
OtherReq(e, sid) ==
    [endpoint |-> e, command |-> EmptyStr, sessionId |-> sid, cwd |-> EmptyStr]

(* The requests the model submits. *)
TermRequests ==
    {ExecuteReq(c, "default") : c \in Commands}
    \cup {ExecuteReq(<<"dir">>, "s2"), ExecuteReq(<<"cd", " ", "sub">>, "s2")}
    \cup {SetCwdReq(w, "default") : w \in CwdArgs}
    \cup {OtherReq(e, "default") : e \in {"get_cwd", "get_history", "clear_history"}}

(* TerminalSession.__init__ *)
NewSession(working_dir) == [working_dir |-> working_dir, history |-> <<>>]
FreeObj == [working_dir |-> EmptyStr, history |-> <<>>]

NoTResp == [status |-> 0, keys |-> {}, success |-> FALSE, output |-> EmptyStr,
            error |-> EmptyStr, cwd |-> EmptyStr, exitCode |-> 0,
            history |-> <<>>]

(* terminal.py:43-54, 78-99: the dicts TerminalSession.execute returns,    *)
(* jsonify-ed with status 200 by execute_command.                          *)
CommandResp(success, output, error, cwd) ==
    [NoTResp EXCEPT !.status = 200,
                    !.keys = {"success", "output", "error", "cwd"},
                    !.success = success, !.output = output, !.error = error,
                    !.cwd = cwd]

(* A result that reports the directory the session started in. *)
InitialCwdReported(rc, output, error, cwd) ==
    [NoTResp EXCEPT !.status = 200,
                    !.keys = {"success", "output", "error", "cwd", "exitCode"},
                    !.success = (rc = 0), !.output = output,
                    !.error = (IF error # EmptyStr THEN error ELSE NoneVal),
                    !.cwd = ProjectDir, !.exitCode = rc]

CompletedResp(rc, output, error, cwd) ==
    [NoTResp EXCEPT !.status = 200,
                    !.keys = {"success", "output", "error", "cwd", "exitCode"},
                    !.success = (rc = 0), !.output = output,
                    !.error = (IF error # EmptyStr THEN error ELSE NoneVal),
                    !.cwd = cwd, !.exitCode = rc]

TermErrorResp(message) ==
    [NoTResp EXCEPT !.status = 400, !.keys = {"error"}, !.error = message]

CdNotFound(new_dir) == <<"The system cannot find the path specified: ">> \o new_dir
(* The executor's timeout message used for the terminal. *)
ExecutorTimeoutMessage == <<"Execution timed out (", ToString(MessageLimit), "s limit)">>

TermTimeoutMessage ==
    <<"Command timed out after ", ToString(TerminalTimeout), " seconds">>

(* session.history[-50:] *)
LastN(history, n) ==
    IF Len(history) <= n THEN history
    ELSE SubSeq(history, Len(history) - n + 1, Len(history))

IdleThread ==
    [pc |-> "idle", endpoint |-> "none", command |-> EmptyStr,
     session_id |-> "default", new_cwd |-> EmptyStr, session |-> NoObj,
     run_cwd |-> EmptyStr, dur |-> 0, children |-> 0, nExec |-> 0,
     rc |-> 0, streams |-> NoStreams, partial |-> NoStreams,
     timestamp |-> 0, timedOut |-> FALSE, fault |-> "none", resp |-> NoTResp]

SetT(t, rec) == tr' = [tr EXCEPT ![t] = rec]

(* terminal.py:112-119, 128-130, 139-146, 157-159, 168-170: a route        *)
(* handler up to its call of get_session.                                  *)
TermReceive(t, request) ==
    /\ surface = "session"
    /\ tr[t].pc = "idle"
    /\ calls < MaxCalls
    /\ calls' = calls + 1
    /\ LET command == Strip(request.command)
           th == [IdleThread EXCEPT !.endpoint = request.endpoint,
                                    !.command = command,
                                    !.session_id = request.sessionId,
                                    !.new_cwd = request.cwd]
       IN IF request.endpoint = "execute" /\ command = EmptyStr
          THEN SetT(t, [th EXCEPT !.pc = "done",
                                  !.resp = TermErrorResp(<<"Command is required">>)])
          ELSE IF request.endpoint = "set_cwd"
                  /\ (request.cwd = EmptyStr \/ ~IsDir(request.cwd))
          THEN SetT(t, [th EXCEPT !.pc = "done",
                                  !.resp = TermErrorResp(<<"Invalid directory">>)])
          ELSE SetT(t, [th EXCEPT !.pc = "get_session"])
    /\ UNCHANGED <<surface, evars, terminal_sessions, heap, now>>

(* terminal.py:104: if session_id not in terminal_sessions *)
GetSessionCheck(t) ==
    /\ surface = "session"
    /\ tr[t].pc = "get_session"
    /\ SetT(t, [tr[t] EXCEPT !.pc =
            IF terminal_sessions[tr[t].session_id] = NoObj
            THEN "create" ELSE "lookup"])
    /\ UNCHANGED <<surface, evars, terminal_sessions, heap, now, calls>>

(* One new TerminalSession stored under every id. *)
GetSessionCreateShared(t) ==
    /\ surface = "session"
    /\ tr[t].pc = "create"
    /\ \E o \in ObjIds :
          /\ heap[o] = FreeObj
          /\ \A q \in ObjIds : heap[q] = FreeObj => o <= q
          /\ heap' = [heap EXCEPT ![o] = NewSession(ProjectDir)]
          /\ terminal_sessions' = [sid \in SessionIds |-> o]
    /\ SetT(t, [tr[t] EXCEPT !.pc = "lookup"])
    /\ UNCHANGED <<surface, evars, now, calls>>

(* terminal.py:106-107: a new TerminalSession is stored under the id.      *)
GetSessionCreate(t) ==
    /\ surface = "session"
    /\ tr[t].pc = "create"
    /\ \E o \in ObjIds :
          /\ heap[o] = FreeObj
          /\ \A q \in ObjIds : heap[q] = FreeObj => o <= q
          /\ heap' = [heap EXCEPT ![o] = NewSession(ProjectDir)]
          /\ terminal_sessions' = [terminal_sessions EXCEPT ![tr[t].session_id] = o]
    /\ SetT(t, [tr[t] EXCEPT !.pc = "lookup"])
    /\ UNCHANGED <<surface, evars, now, calls>>

(* terminal.py:108: return terminal_sessions[session_id] *)
GetSessionReturn(t) ==
    /\ surface = "session"
    /\ tr[t].pc = "lookup"
    /\ SetT(t, [tr[t] EXCEPT !.pc = tr[t].endpoint,
                             !.session = terminal_sessions[tr[t].session_id]])
    /\ UNCHANGED <<surface, evars, terminal_sessions, heap, now, calls>>

(* Whether subprocess.run is given a timeout for the command. *)
HasTermTimeout == TRUE

CommandFinishesInTime(dur) ==
    IF HasTermTimeout THEN dur <= TerminalTimeout ELSE dur # Forever

(* terminal.py:30-54: the cd branch of TerminalSession.execute, as the     *)
(* pair of the new working_dir and the dict returned.                      *)
CdResult(working_dir, command) ==
    LET new_dir == CdTarget(command)
        potential_path == PathJoin(working_dir, new_dir)
    IN IF new_dir = <<"..">>
       THEN [working_dir |-> DirName(working_dir),
             resp |-> CommandResp(TRUE, EmptyStr, NoneVal, DirName(working_dir))]
       ELSE IF IsAbs(new_dir)
       THEN LET wd == IF IsDir(new_dir) THEN new_dir ELSE working_dir
            IN [working_dir |-> wd,
                resp |-> CommandResp(TRUE, EmptyStr, NoneVal, wd)]
       ELSE IF IsDir(potential_path)
       THEN [working_dir |-> AbsPath(potential_path),
             resp |-> CommandResp(TRUE, EmptyStr, NoneVal, AbsPath(potential_path))]
       ELSE [working_dir |-> working_dir,
             resp |-> CommandResp(FALSE, EmptyStr, CdNotFound(new_dir), working_dir)]

(* terminal.py:27-64: TerminalSession.execute up to the process being      *)
(* started; a cd command is handled without one.                           *)
TermExecute(t) ==
    /\ surface = "session"
    /\ tr[t].pc = "execute"
    /\ LET th == tr[t]
           session == heap[th.session]
       IN IF IsCd(th.command)
          THEN LET res == CdResult(session.working_dir, th.command)
               IN /\ heap' = [heap EXCEPT ![th.session].working_dir = res.working_dir]
                  /\ SetT(t, [th EXCEPT !.pc = "done", !.resp = res.resp])
          ELSE /\ UNCHANGED heap
               /\ \/ \E dur \in Durations :
                        SetT(t, [th EXCEPT !.pc = "wait", !.dur = dur,
                                           !.nExec = @ + 1,
                                           !.run_cwd = session.working_dir])
                  \/ \* Popen raises: powershell is missing (terminal.py:93-99)
                     SetT(t, [th EXCEPT !.pc = "done", !.fault = "spawn",
                                        !.resp = CommandResp(FALSE, EmptyStr,
                                                   SpawnFault, session.working_dir)])
    /\ UNCHANGED <<surface, evars, terminal_sessions, now, calls>>

(* The command starts a process of its own. *)
TermSpawnChild(t) ==
    /\ surface = "session"
    /\ tr[t].pc = "wait"
    /\ tr[t].children < MaxChildren
    /\ SetT(t, [tr[t] EXCEPT !.children = @ + 1])
    /\ UNCHANGED <<surface, evars, terminal_sessions, heap, now, calls>>

(* terminal.py:66-76: the process exits in time; the history entry is      *)
(* built from the session's working_dir and the clock.                     *)
TermExit(t, rc, streams) ==
    /\ surface = "session"
    /\ tr[t].pc = "wait"
    /\ CommandFinishesInTime(tr[t].dur)
    /\ \E time \in now..(IF now < MaxClock THEN now + 1 ELSE now) :
          /\ now' = time
          /\ SetT(t, [tr[t] EXCEPT !.pc = "append", !.dur = 0, !.rc = rc,
                                   !.streams = streams, !.timestamp = time,
                                   !.run_cwd = heap[tr[t].session].working_dir])
    /\ UNCHANGED <<surface, evars, terminal_sessions, heap, calls>>

HistoryEntry(th) ==
    [command |-> th.command, output |-> th.streams.out,
     error |-> th.streams.err, cwd |-> th.run_cwd, timestamp |-> th.timestamp]

(* terminal.py:70, 78-84: the entry is appended and the result returned.   *)
TermAppend(t) ==
    /\ surface = "session"
    /\ tr[t].pc = "append"
    /\ heap' = [heap EXCEPT ![tr[t].session].history = Append(@, HistoryEntry(tr[t]))]
    /\ SetT(t, [tr[t] EXCEPT !.pc = "done", !.run_cwd = EmptyStr,
                  !.timestamp = 0,
                  !.resp = CompletedResp(tr[t].rc, tr[t].streams.out,
                              tr[t].streams.err, heap[tr[t].session].working_dir)])
    /\ UNCHANGED <<surface, evars, terminal_sessions, now, calls>>

(* terminal.py:57-64, 86-92: the process overruns; subprocess.run kills it *)
(* (that process only) and raises TimeoutExpired carrying the output read  *)
(* so far.                                                                 *)
TermTimeout(t, streams) ==
    /\ surface = "session"
    /\ tr[t].pc = "wait"
    /\ ~CommandFinishesInTime(tr[t].dur)
    /\ HasTermTimeout
    /\ SetT(t, [tr[t] EXCEPT !.pc = "done", !.dur = 0, !.timedOut = TRUE,
                  !.partial = streams,
                  !.resp = CommandResp(FALSE, EmptyStr, TermTimeoutMessage,
                              heap[tr[t].session].working_dir)])
    /\ UNCHANGED <<surface, evars, terminal_sessions, heap, now, calls>>

(* The command overruns while a process it started holds the captured      *)
(* pipes: subprocess.run's communicate() after the kill does not return    *)
(* while that process keeps them open.                                     *)
TermTimeoutBlocked(t, streams) ==
    /\ surface = "session"
    /\ tr[t].pc = "wait"
    /\ ~CommandFinishesInTime(tr[t].dur)
    /\ HasTermTimeout
    /\ tr[t].children > 0
    /\ SetT(t, [tr[t] EXCEPT !.pc = "drain", !.dur = 0, !.partial = streams])
    /\ UNCHANGED <<surface, evars, terminal_sessions, heap, now, calls>>

(* The processes holding the pipes exit, if they ever do, and              *)
(* TimeoutExpired reaches terminal.py:86-92.                               *)
TermPipesClosed(t) ==
    /\ surface = "session"
    /\ tr[t].pc = "drain"
    /\ SetT(t, [tr[t] EXCEPT !.pc = "done", !.children = 0, !.timedOut = TRUE,
                  !.resp = CommandResp(FALSE, EmptyStr, TermTimeoutMessage,
                              heap[tr[t].session].working_dir)])
    /\ UNCHANGED <<surface, evars, terminal_sessions, heap, now, calls>>

(* terminal.py:133-135 *)
TermGetCwd(t) ==
    /\ surface = "session"
    /\ tr[t].pc = "get_cwd"
    /\ SetT(t, [tr[t] EXCEPT !.pc = "done",
                  !.resp = [NoTResp EXCEPT !.status = 200, !.keys = {"cwd"},
                                           !.cwd = heap[tr[t].session].working_dir]])
    /\ UNCHANGED <<surface, evars, terminal_sessions, heap, now, calls>>

(* terminal.py:149-153 *)
TermSetCwd(t) ==
    /\ surface = "session"
    /\ tr[t].pc = "set_cwd"
    /\ heap' = [heap EXCEPT ![tr[t].session].working_dir = AbsPath(tr[t].new_cwd)]
    /\ SetT(t, [tr[t] EXCEPT !.pc = "done",
                  !.resp = [NoTResp EXCEPT !.status = 200, !.keys = {"cwd"},
                                           !.cwd = AbsPath(tr[t].new_cwd)]])
    /\ UNCHANGED <<surface, evars, terminal_sessions, now, calls>>

(* terminal.py:162-164 *)
TermGetHistory(t) ==
    /\ surface = "session"
    /\ tr[t].pc = "get_history"
    /\ SetT(t, [tr[t] EXCEPT !.pc = "done",
                  !.resp = [NoTResp EXCEPT !.status = 200, !.keys = {"history"},
                     !.history = LastN(heap[tr[t].session].history, HistoryLimit)]])
    /\ UNCHANGED <<surface, evars, terminal_sessions, heap, now, calls>>

(* terminal.py:172-174 *)
TermClearHistory(t) ==
    /\ surface = "session"
    /\ tr[t].pc = "clear_history"
    /\ heap' = [heap EXCEPT ![tr[t].session].history = <<>>]
    /\ SetT(t, [tr[t] EXCEPT !.pc = "done",
                  !.resp = [NoTResp EXCEPT !.status = 200, !.keys = {"message"}]])
    /\ UNCHANGED <<surface, evars, terminal_sessions, now, calls>>

(* The response has gone out and the caller may send its next request.     *)
TermReturn(t) ==
    /\ surface = "session"
    /\ tr[t].pc = "done"
    /\ calls < MaxCalls
    /\ SetT(t, IdleThread)
    /\ UNCHANGED <<surface, evars, terminal_sessions, heap, now, calls>>

TermStep(t) ==
    \/ \E request \in TermRequests : TermReceive(t, request)
    \/ GetSessionCheck(t)
    \/ GetSessionCreate(t)
    \/ GetSessionReturn(t)
    \/ TermExecute(t)
    \/ TermSpawnChild(t)
    \/ \E rc \in ExitCodes, streams \in StdStreams : TermExit(t, rc, streams)
    \/ TermAppend(t)
    \/ \E streams \in StdStreams : TermTimeout(t, streams)
    \/ \E streams \in StdStreams : TermTimeoutBlocked(t, streams)
    \/ TermPipesClosed(t)
    \/ TermGetCwd(t)
    \/ TermSetCwd(t)
    \/ TermGetHistory(t)
    \/ TermClearHistory(t)
    \/ TermReturn(t)

TermNext == \E t \in Callers : TermStep(t)

ExecStep(r) ==
    \/ \E body \in Bodies : ExecReceive(r, body)
    \/ ExecWriteSource(r)
    \/ ExecStartStep(r)
    \/ ExecSpawnChild(r)
    \/ \E rc \in ExitCodes, streams \in StdStreams : ExecStepExit(r, rc, streams)
    \/ \E streams \in StdStreams : ExecStepTimeout(r, streams)
    \/ \E streams \in StdStreams : ExecStepTimeoutBlocked(r, streams)
    \/ ExecPipesClosed(r)
    \/ ExecFinally(r)

ExecNext == \E r \in Reqs : ExecStep(r)

(* The steps the handler's thread takes by itself once a request is        *)
(* received: it runs, and a process it waits for either exits or outlasts  *)
(* the timeout.  That another process closes the pipes is not among them.  *)
ExecProgress(r) ==
    \/ ExecWriteSource(r)
    \/ ExecStartStep(r)
    \/ \E rc \in ExitCodes, streams \in StdStreams : ExecStepExit(r, rc, streams)
    \/ \E streams \in StdStreams : ExecStepTimeout(r, streams)
    \/ \E streams \in StdStreams : ExecStepTimeoutBlocked(r, streams)
    \/ ExecFinally(r)

TermProgress(t) ==
    \/ GetSessionCheck(t)
    \/ GetSessionCreate(t)
    \/ GetSessionReturn(t)
    \/ TermExecute(t)
    \/ \E rc \in ExitCodes, streams \in StdStreams : TermExit(t, rc, streams)
    \/ TermAppend(t)
    \/ \E streams \in StdStreams : TermTimeout(t, streams)
    \/ \E streams \in StdStreams : TermTimeoutBlocked(t, streams)
    \/ TermGetCwd(t)
    \/ TermSetCwd(t)
    \/ TermGetHistory(t)
    \/ TermClearHistory(t)

Init ==
    /\ surface \in {"ephemeral", "session"}
    /\ er = [r \in Reqs |-> IdleReq]
    /\ dirs = {}
    /\ files = {}
    /\ pinned = {}
    /\ tr = [t \in Callers |-> IdleThread]
    /\ terminal_sessions = [sid \in SessionIds |-> NoObj]
    /\ heap = [o \in ObjIds |-> FreeObj]
    /\ now = 0
    /\ calls = 0

Next == ExecNext \/ TermNext

Spec == Init /\ [][Next]_vars

(* One request at a time on each surface, its handler thread kept running: *)
(* the server's threads are scheduled by the operating system, so a thread *)
(* that can take a step takes it.                                          *)
SoloNext == ExecStep(1) \/ TermStep(1)

Fairness == WF_vars(ExecProgress(1)) /\ WF_vars(TermProgress(1))

FairSpec == Init /\ [][SoloNext]_vars /\ Fairness

----------------------------------------------------------------------------
(* The claims. *)

AllKeys == {"success", "output", "error"}
SupportedLanguages == {"python", "javascript", "js", "java"}
Returned(r) == er[r].pc = "done"
TimedOut(r) == er[r].timedOut # "none"

(* C1: every request that created a workspace returns with the workspace   *)
(* directory gone.                                                         *)
C1_WorkspaceGoneAtReturn ==
    \A r \in Reqs : Returned(r) /\ er[r].temp_dir # NoDir => ~er[r].left

(* C2: a command of severity block starts no process and is answered with  *)
(* a blocked response.                                                     *)
C2_BlockedCommandNotExecuted ==
    \A t \in Callers :
        tr[t].endpoint = "execute" /\ ValidateSeverity(tr[t].command) = "block"
        => /\ tr[t].nExec = 0
           /\ tr[t].pc = "done" => tr[t].resp.status # 200

(* C3: when javac exits nonzero the run step is never started, and the     *)
(* response is success=false with the compiler's stdout as output and      *)
(* "Compilation Error:\n" + the compiler's stderr as error.                *)
C3_CompileGate ==
    \A r \in Reqs :
        er[r].language = "java" /\ er[r].compileRc \notin {NoRc, 0}
        => /\ er[r].nRun = 0
           /\ er[r].pc \in {"finally", "done"}
           /\ er[r].resp.status = 200
           /\ er[r].resp.keys = AllKeys
           /\ er[r].resp.success = FALSE
           /\ er[r].resp.output = er[r].last.out
           /\ er[r].resp.error = <<"Compilation Error:\n">> \o er[r].last.err

C3_Witness ==
    \E r \in Reqs :
        /\ Returned(r)
        /\ er[r].compileRc = 1
        /\ er[r].nCompile = 1
        /\ er[r].last.err # EmptyStr

(* C4: a step that overran its timeout ends the request with status 408,   *)
(* success=false and "Execution timed out (Ns limit)", N the timeout that  *)
(* step was given.                                                         *)
C4_TimeoutStatus ==
    \A r \in Reqs :
        TimedOut(r)
        => /\ er[r].resp.status = 408
           /\ er[r].resp.success = FALSE
           /\ "error" \in er[r].resp.keys
           /\ er[r].resp.error =
                <<"Execution timed out (",
                  ToString(StepTimeout(er[r].language, er[r].timedOut)),
                  "s limit)">>

C4_Witness ==
    /\ \E r \in Reqs : Returned(r) /\ er[r].timedOut = "compile"
    /\ \E r \in Reqs : Returned(r) /\ er[r].timedOut = "run"

(* C5: once a timed-out request or command has been answered, no process   *)
(* started on its behalf is still running.                                 *)
C5_NoProcessLeftAfterTimeout ==
    /\ \A r \in Reqs : Returned(r) /\ TimedOut(r) => er[r].children = 0
    /\ \A t \in Callers : tr[t].pc = "done" /\ tr[t].timedOut => tr[t].children = 0

(* C6: the output a process wrote before it timed out is in the result.    *)
C6_PartialOutputReturned ==
    /\ \A r \in Reqs :
          Returned(r) /\ TimedOut(r) /\ er[r].partial.out # EmptyStr
          => "output" \in er[r].resp.keys /\ er[r].resp.output = er[r].partial.out
    /\ \A t \in Callers :
          tr[t].pc = "done" /\ tr[t].timedOut /\ tr[t].partial.out # EmptyStr
          => tr[t].resp.output = tr[t].partial.out

(* C7: the compile step and the run step of a java request together take   *)
(* no more than the limit the timeout message announces.                   *)
C7_SharedBudget ==
    \A r \in Reqs : er[r].language = "java" => er[r].elapsed <= MessageLimit

(* C8: every request received, an ephemeral execution or a terminal        *)
(* command, is eventually answered, whatever the code or command does.     *)
C8_EveryRequestReturns ==
    /\ \A r \in Reqs : (er[r].pc # "idle") ~> (er[r].pc = "done")
    /\ \A t \in Callers : (tr[t].pc # "idle") ~> (tr[t].pc = "done")

(* C9: an unsupported language gets the unsupported-language error at      *)
(* once: no file is written, no process is started, and the workspace      *)
(* that was created is removed.                                            *)
C9_UnsupportedLanguage ==
    \A r \in Reqs :
        er[r].temp_dir # NoDir /\ er[r].language \notin SupportedLanguages
        => /\ er[r].pc \in {"try", "finally", "done"}
           /\ er[r].nCompile = 0 /\ er[r].nRun = 0
           /\ er[r].fname = EmptyStr
           /\ er[r].pc # "done" => {f \in files : f.dir = er[r].temp_dir} = {}
           /\ er[r].pc # "try"
                => er[r].resp = ErrorResp(400, <<"Unsupported language: ", er[r].language>>)
           /\ er[r].pc = "done" => ~er[r].left

C9_Witness ==
    \E r \in Reqs :
        /\ Returned(r)
        /\ er[r].language = "ruby"
        /\ er[r].temp_dir # NoDir
        /\ er[r].resp.status = 400

(* C10: a fault while handling a request becomes a success=false result    *)
(* carrying the fault, and no exception leaves execute_code.               *)
C10_FaultsBecomeResults ==
    \A r \in Reqs :
        Returned(r) /\ er[r].fault # "none"
        => /\ ~er[r].escaped
           /\ er[r].resp.success = FALSE
           /\ "error" \in er[r].resp.keys

(* The request's steps all ran to their exit, in time and without fault.   *)
StepsCompleted(r) ==
    /\ er[r].pc \in {"finally", "done"}
    /\ er[r].nCompile + er[r].nRun > 0
    /\ er[r].timedOut = "none"
    /\ er[r].fault = "none"

(* C11 as stated: when every step finishes in time and without fault, the  *)
(* response's output and error are exactly the stdout and stderr of the    *)
(* last step executed, and success is true exactly when the exit codes     *)
(* are 0.                                                                  *)
C11_LastStepVerbatim ==
    \A r \in Reqs :
        StepsCompleted(r)
        => /\ er[r].resp.output = er[r].last.out
           /\ er[r].resp.error = er[r].last.err
           /\ er[r].resp.success
                <=> (er[r].lastRc = 0
                     /\ (er[r].language = "java" => er[r].compileRc = 0))

(* C11 amended: when every step finishes in time and without fault, the    *)
(* response is 200; if the run step was executed, output and error are its *)
(* stdout and stderr and success is true exactly when it exited 0; if the  *)
(* java compile step exited nonzero, output is the compiler's stdout,      *)
(* error is "Compilation Error:\n" + the compiler's stderr and success is  *)
(* false.                                                                  *)
C11_ResultFromLastStep ==
    \A r \in Reqs :
        StepsCompleted(r)
        => /\ er[r].resp.status = 200
           /\ er[r].resp.keys = AllKeys
           /\ er[r].resp.output = er[r].last.out
           /\ IF er[r].nRun = 1
              THEN /\ er[r].resp.error = er[r].last.err
                   /\ er[r].resp.success <=> er[r].lastRc = 0
                   /\ er[r].language = "java" => er[r].compileRc = 0
              ELSE /\ er[r].language = "java" /\ er[r].compileRc # 0
                   /\ er[r].resp.error = <<"Compilation Error:\n">> \o er[r].last.err
                   /\ ~er[r].resp.success

C11_Witness ==
    /\ \E r \in Reqs :
          /\ Returned(r) /\ StepsCompleted(r) /\ er[r].language = "java"
          /\ er[r].nRun = 1 /\ er[r].lastRc = 0 /\ er[r].resp.success
          /\ er[r].resp.error # EmptyStr
    /\ \E r \in Reqs :
          /\ Returned(r) /\ StepsCompleted(r) /\ er[r].language = "python"
          /\ er[r].lastRc = 1 /\ ~er[r].resp.success

(* The HTTP status the client sees: the one execute_code returns, or 500   *)
(* when an exception leaves it (app.py:109-111).                           *)
HttpStatus(r) == IF er[r].escaped THEN 500 ELSE er[r].resp.status

(* The outcome class of a returned request. *)
OutcomeClass(r) ==
    CASE er[r].fault # "none" -> "fault"
      [] er[r].timedOut # "none" -> "timeout"
      [] er[r].code = EmptyStr -> "empty"
      [] er[r].language \notin SupportedLanguages -> "unsupported"
      [] StepsCompleted(r) /\ ~er[r].resp.success -> "nonzero"
      [] OTHER -> "ok"

FourClasses == {"unsupported", "fault", "timeout", "nonzero"}

(* C12 as stated: unsupported language, internal fault, timeout and        *)
(* nonzero exit are reported with pairwise distinct statuses, and no other *)
(* rejected request (empty code) has the unsupported-language status.      *)
C12_DistinctAndExclusive ==
    \A r1, r2 \in Reqs :
        Returned(r1) /\ Returned(r2) /\ OutcomeClass(r1) # OutcomeClass(r2)
        /\ OutcomeClass(r1) \in FourClasses
        /\ OutcomeClass(r2) \in FourClasses \cup {"empty"}
        => HttpStatus(r1) # HttpStatus(r2)

(* C12 amended: unsupported language (400), internal fault (500), timeout  *)
(* (408) and user code that exited nonzero (200 with success=false) are    *)
(* reported with pairwise distinct statuses.                               *)
C12_FourClassesDistinct ==
    \A r1, r2 \in Reqs :
        Returned(r1) /\ Returned(r2) /\ OutcomeClass(r1) # OutcomeClass(r2)
        /\ OutcomeClass(r1) \in FourClasses
        /\ OutcomeClass(r2) \in FourClasses
        => /\ HttpStatus(r1) # HttpStatus(r2)
           /\ OutcomeClass(r1) = "nonzero"
                => HttpStatus(r1) = 200 /\ ~er[r1].resp.success

C12_Witness ==
    \E r1, r2 \in Reqs :
        /\ Returned(r1) /\ Returned(r2)
        /\ OutcomeClass(r1) = "unsupported"
        /\ OutcomeClass(r2) = "fault" /\ ~er[r2].escaped

(* C13: every response execute_code returns, on every path, has the three  *)
(* fields success, output and error.                                       *)
C13_ThreeFieldsAlways ==
    \A r \in Reqs :
        Returned(r) /\ ~er[r].escaped => er[r].resp.keys = AllKeys

RequiredExt(language) ==
    CASE language = "python" -> ".py"
      [] language = "java" -> ".java"
      [] OTHER -> ".js"

DefaultName(language) ==
    CASE language = "python" -> <<"script", ".py">>
      [] language = "java" -> <<"Main", ".java">>
      [] OTHER -> <<"script", ".js">>

(* C14: for a supported language the source file is named by the supplied  *)
(* filename, with the language's extension appended when it is missing,    *)
(* and by the fixed default only when no filename is supplied.             *)
C14_FileNameHonored ==
    \A r \in Reqs :
        er[r].language \in SupportedLanguages /\ er[r].fname # EmptyStr
        => er[r].fname =
             IF er[r].filename = EmptyStr THEN DefaultName(er[r].language)
             ELSE IF er[r].filename[Len(er[r].filename)] = RequiredExt(er[r].language)
             THEN er[r].filename
             ELSE er[r].filename \o <<RequiredExt(er[r].language)>>

(* C15: a java request's run target is the declared package, a dot and the *)
(* source file's name without its extension, or that bare name when no     *)
(* package is declared; the compile step is given the file that was        *)
(* written.                                                                *)
C15_JavaRunTarget ==
    \A r \in Reqs :
        er[r].language = "java" /\ er[r].fname # EmptyStr
        => LET fname == er[r].fname
               base == SubSeq(fname, 1, Len(fname) - 1)
               package_name == PackageOf(er[r].code)
           IN /\ fname[Len(fname)] = ".java"
              /\ er[r].target = IF package_name # EmptyStr
                                THEN package_name \o <<".">> \o base
                                ELSE base
              /\ er[r].pc = "wait"
                   => [dir |-> FileDir(er[r].temp_dir, fname), name |-> fname]
                        \in files

C15_Witness ==
    /\ \E r \in Reqs :
          /\ er[r].pc = "wait" /\ er[r].step = "run" /\ er[r].compileRc = 0
          /\ er[r].filename = <<"Foo">>
          /\ er[r].target = <<"pkg", ".", "Foo">>
    /\ \E r \in Reqs :
          /\ er[r].pc = "wait" /\ er[r].step = "compile"
          /\ er[r].filename = EmptyStr
          /\ er[r].target = <<"Main">>

SourceWritten(r) ==
    /\ er[r].temp_dir \in dirs
    /\ [dir |-> FileDir(er[r].temp_dir, er[r].fname), name |-> er[r].fname]
         \in files

(* What the order of events leaves true in every state of request r. *)
OrderState(r) ==
    /\ er[r].nCompile <= 1 /\ er[r].nRun <= 1
    /\ er[r].nCompile = 1 => er[r].language = "java"
    /\ er[r].nRun = 1 /\ er[r].language = "java"
         => er[r].nCompile = 1 /\ er[r].compileRc = 0
    /\ er[r].pc \in {"ready", "wait"} => SourceWritten(r)
    /\ er[r].pc = "try" => er[r].temp_dir \in dirs /\ er[r].fname = EmptyStr

(* What the order of events allows a step of request r to do. *)
OrderStep(r) ==
    /\ er'[r].nCompile + er'[r].nRun > er[r].nCompile + er[r].nRun
         => er[r].pc = "ready" /\ SourceWritten(r)
    /\ er'[r].children > er[r].children => er[r].pc = "wait"
    /\ er[r].fname = EmptyStr /\ er'[r].fname # EmptyStr => er[r].pc = "try"
    /\ er[r].pc # "done" /\ er'[r].pc = "done" /\ er[r].temp_dir # NoDir
         => er[r].pc = "finally"
    /\ er[r].pc \in {"finally", "done"}
         => er'[r].pc \in {"finally", "done"} /\ er'[r].nRun = er[r].nRun
            /\ er'[r].nCompile = er[r].nCompile

(* C16: in every execution the workspace is created, then the source file  *)
(* written, then (java) the compile step, then the run step, then the      *)
(* cleanup, then the response returned; no process is started before the   *)
(* file is written or after the cleanup, and a request runs at most one    *)
(* compile step and at most one run step.                                  *)
C16_EventOrder ==
    /\ [](\A r \in Reqs : OrderState(r))
    /\ [][\A r \in Reqs : OrderStep(r)]_vars

C16_Witness ==
    \E r \in Reqs :
        /\ Returned(r) /\ er[r].language = "java"
        /\ er[r].nCompile = 1 /\ er[r].nRun = 1 /\ ~er[r].left

(* The request holds a workspace it has not cleaned up yet. *)
Running(r) == er[r].pc \in {"try", "ready", "wait", "drain", "finally"}

WorkspaceFiles(r) == {f \in files : f.dir = er[r].temp_dir}

(* C17: two requests running at the same time have distinct workspaces,    *)
(* each of which exists while its request runs, and a step of one request  *)
(* (its cleanup included) leaves the workspace of any other running        *)
(* request as it was.                                                      *)
C17_WorkspacesIndependent ==
    /\ [](\A r1, r2 \in Reqs :
            Running(r1) /\ Running(r2) /\ r1 # r2
            => er[r1].temp_dir # er[r2].temp_dir)
    /\ [](\A r \in Reqs : Running(r) => er[r].temp_dir \in dirs)
    /\ [][\A r \in Reqs :
            Running(r) /\ er'[r] = er[r]
            => /\ er[r].temp_dir \in dirs'
               /\ {f \in files' : f.dir = er[r].temp_dir} = WorkspaceFiles(r)]_vars

C17_Witness ==
    \E r1, r2 \in Reqs :
        /\ Returned(r1) /\ er[r1].temp_dir # NoDir /\ ~er[r1].left
        /\ er[r2].pc = "wait" /\ SourceWritten(r2)
        /\ er[r1].temp_dir # er[r2].temp_dir

(* The caller's command is in flight: its process runs, or execute is      *)
(* about to append to the history.                                         *)
CommandInFlight(t) ==
    tr[t].endpoint = "execute" /\ tr[t].pc \in {"wait", "drain", "append"}

(* C18: at most one command is in flight on a session at any time.         *)
C18_OneCommandPerSession ==
    \A t1, t2 \in Callers :
        t1 # t2 /\ CommandInFlight(t1) /\ CommandInFlight(t2)
        => tr[t1].session_id # tr[t2].session_id

(* One caller issuing its terminal requests in sequence, each awaited      *)
(* before the next (and one ephemeral request).                            *)
SeqSpec == Init /\ [][SoloNext]_vars

(* A step changes the working directory of session object o only as the    *)
(* cd or set_cwd request of a caller that then reports that directory.     *)
CwdSetBy(t, o) ==
    /\ tr[t].session = o
    /\ tr[t].pc \in {"execute", "set_cwd"}
    /\ tr'[t].pc = "done"
    /\ tr'[t].resp.status = 200
    /\ tr'[t].resp.cwd = heap'[o].working_dir
    /\ tr[t].pc = "execute" => IsCd(tr[t].command) /\ tr'[t].resp.success

(* C19: with commands issued in sequence, a session starts in its initial  *)
(* directory, its working directory changes only by a successful cd or a   *)
(* set_cwd, to the directory that request reports, every other command's   *)
(* process is started in the session's working directory, and every        *)
(* result reports it as cwd.                                               *)
C19_SequentialCwd ==
    /\ [](\A t \in Callers :
            /\ tr[t].pc = "wait" => tr[t].run_cwd = heap[tr[t].session].working_dir
            /\ tr[t].pc = "done" /\ "cwd" \in tr[t].resp.keys
                 => tr[t].resp.cwd = heap[tr[t].session].working_dir)
    /\ [][\A o \in ObjIds :
            /\ heap[o] = FreeObj /\ heap'[o] # FreeObj
                 => heap'[o].working_dir = ProjectDir
            /\ heap[o] # FreeObj /\ heap'[o].working_dir # heap[o].working_dir
                 => \E t \in Callers : CwdSetBy(t, o)]_vars

C19_Witness ==
    \E t \in Callers :
        /\ calls = 2
        /\ tr[t].pc = "done" /\ tr[t].command = <<"dir">>
        /\ tr[t].nExec = 1
        /\ tr[t].resp.cwd = <<"/", "tmp">>
        /\ "exitCode" \in tr[t].resp.keys

(* C20: the access times a session records, in the order they are stored,  *)
(* never decrease.                                                         *)
C20_AccessTimesNonDecreasing ==
    \A o \in ObjIds :
        \A i, j \in 1..Len(heap[o].history) :
            i < j => heap[o].history[i].timestamp <= heap[o].history[j].timestamp

(* The caller's command ran to its exit and exited nonzero. *)
ExitedNonzero(t) ==
    /\ tr[t].pc = "done" /\ tr[t].endpoint = "execute"
    /\ tr[t].nExec = 1 /\ tr[t].fault = "none" /\ ~tr[t].timedOut
    /\ tr[t].rc # 0

(* The caller's command could not be started. *)
ExecFailed(t) == tr[t].pc = "done" /\ tr[t].fault = "spawn"

(* C21: a command that could not be started and a command that ran and     *)
(* exited nonzero are never reported with the same status.                 *)
C21_ExecFailureDistinct ==
    \A t1, t2 \in Callers :
        ExecFailed(t1) /\ ExitedNonzero(t2)
        => tr[t1].resp.status # tr[t2].resp.status

(* C22: a command that overran the timeout is answered success=false with  *)
(* the timeout message and no exit code, and no step of it, from the start *)
(* of its process to that answer, changes a session's working directory or *)
(* history.                                                                *)
C22_TimeoutFrame ==
    /\ [](\A t \in Callers :
            tr[t].pc = "done" /\ tr[t].timedOut
            => /\ tr[t].resp.status = 200
               /\ ~tr[t].resp.success
               /\ tr[t].resp.error = <<"Command timed out after ", "120", " seconds">>
               /\ "exitCode" \notin tr[t].resp.keys)
    /\ [][\A t \in Callers :
            /\ tr[t].endpoint = "execute" /\ ~IsCd(tr[t].command)
            /\ tr[t].pc \in {"execute", "wait", "drain"}
            /\ tr'[t] # tr[t]
            /\ tr'[t].pc \in {"wait", "drain"} \/ tr'[t].timedOut
            => heap' = heap /\ terminal_sessions' = terminal_sessions]_vars

C22_Witness ==
    \E t \in Callers :
        /\ tr[t].pc = "done" /\ tr[t].timedOut /\ tr[t].nExec = 1
        /\ tr[t].partial.out # EmptyStr
        /\ heap[tr[t].session].history = <<>>

(* C23: whatever filename the caller supplies, every source file lies in a *)
(* workspace directory that exists, so that once every request has         *)
(* returned and every workspace is gone no file is left on the host.       *)
C23_SourceFileInsideWorkspace ==
    /\ \A f \in files : f.dir \in dirs
    /\ (\A r \in Reqs : er[r].pc \in {"idle", "done"}) /\ dirs = {}
         => files = {}

(* C24: once the java compile step has timed out no run step is started,   *)
(* the response is 408 with success=false, and the workspace is gone when   *)
(* the response is returned.                                               *)
C24_CompileTimeout ==
    \A r \in Reqs :
        er[r].timedOut = "compile"
        => /\ er[r].language = "java"
           /\ er[r].nCompile = 1 /\ er[r].nRun = 0
           /\ er[r].pc \in {"finally", "done"}
           /\ er[r].resp.status = 408 /\ ~er[r].resp.success
           /\ er[r].pc = "done" => ~er[r].left /\ ~er[r].escaped

C24_Witness ==
    \E r \in Reqs :
        /\ er[r].pc = "done" /\ er[r].timedOut = "compile"
        /\ er[r].partial.out # EmptyStr

(* C25: a request whose code is empty or missing is answered 400 and       *)
(* nothing else: the step that receives it creates no directory and no     *)
(* file, and the request never has a workspace, a source file or a process.*)
C25_EmptyCodeRejected ==
    /\ [](\A r \in Reqs :
            er[r].pc # "idle" /\ er[r].fault # "parse" /\ er[r].code = EmptyStr
            => /\ er[r].pc = "done" /\ ~er[r].escaped
               /\ er[r].resp.status = 400 /\ ~er[r].resp.success
               /\ er[r].temp_dir = NoDir /\ er[r].fname = EmptyStr
               /\ er[r].nCompile + er[r].nRun = 0)
    /\ [][\A r \in Reqs :
            er[r].pc = "idle" /\ er'[r].pc # "idle" /\ er'[r].code = EmptyStr
            => dirs' = dirs /\ files' = files /\ pinned' = pinned]_vars

C25_Witness ==
    /\ \E r \in Reqs :
          /\ er[r].pc = "done" /\ er[r].resp.status = 400
          /\ er[r].code = EmptyStr /\ er[r].language = "java"
          /\ er[r].filename = <<"Foo">>
    /\ \E r \in Reqs :
          /\ er[r].pc = "done" /\ er[r].resp.status = 400
          /\ er[r].code = EmptyStr /\ er[r].language = "python"
          /\ er[r].filename = EmptyStr

(* The path names a directory of the host. *)
ExistingDir(path) ==
    /\ Len(path) > 0 /\ path[1] = "/"
    /\ NormNames(<<>>, SelectSeq(path, NotSep)) \in HostDirs

(* The parent of a directory, as a path string. *)
ParentOf(path) ==
    LET names == NormNames(<<>>, SelectSeq(path, NotSep))
    IN PathString(IF names = <<>> THEN names
                  ELSE SubSeq(names, 1, Len(names) - 1))

(* C26: a session's working_dir is always an existing directory: it starts *)
(* as the project directory and every change sets it to the parent of the  *)
(* previous one or to a path that names a directory.                       *)
C26_WorkingDirExists ==
    /\ [](\A o \in ObjIds :
            heap[o] # FreeObj => ExistingDir(heap[o].working_dir))
    /\ [][\A o \in ObjIds :
            heap'[o].working_dir # heap[o].working_dir
            => IF heap[o] = FreeObj
               THEN heap'[o].working_dir = ProjectDir
               ELSE \/ heap'[o].working_dir = ParentOf(heap[o].working_dir)
                    \/ ExistingDir(heap'[o].working_dir)]_vars

C26_Witness ==
    \E t1, t2 \in Callers :
        /\ tr[t1].pc = "done" /\ tr[t1].command = <<"cd", " ", "/", "nowhere">>
        /\ tr[t2].pc = "done" /\ tr[t2].command = <<"CD", " ", "..">>
        /\ tr[t1].session = tr[t2].session
        /\ heap[tr[t2].session].working_dir = <<"/">>

(* C27: a cd whose target is not an existing directory is answered         *)
(* success=false with an error message, and a cd is answered success=true  *)
(* only when the session is then in the requested directory.               *)
C27_CdFailureReported ==
    \A t \in Callers :
        tr[t].pc = "done" /\ tr[t].endpoint = "execute" /\ IsCd(tr[t].command)
        => LET target == CdTarget(tr[t].command)
           IN /\ IsAbs(target) /\ ~ExistingDir(target)
                   => /\ ~tr[t].resp.success
                      /\ tr[t].resp.error \notin {EmptyStr, NoneVal}
              /\ IsAbs(target) /\ tr[t].resp.success
                   => tr[t].resp.cwd = target
              /\ ~tr[t].resp.success
                   => tr[t].resp.error \notin {EmptyStr, NoneVal}

(* The history of the session registered under the id caller t used. *)
SessionHistory(t) == heap[terminal_sessions[tr[t].session_id]].history

(* C28: a command whose process completes adds exactly one entry to its    *)
(* session's history, in the order the processes completed; a cd, a        *)
(* timed-out command and a command that raised add nothing and start no    *)
(* further process; clear_history empties the history and get_history      *)
(* returns its last 50 entries in order.                                   *)
C28_HistoryGrowth ==
    [][\A t \in Callers :
        /\ tr[t].pc = "append" /\ tr'[t].pc = "done"
             => /\ Len(SessionHistory(t)') = Len(SessionHistory(t)) + 1
                /\ SessionHistory(t)'[Len(SessionHistory(t)')].command
                     = tr[t].command
                /\ \A u \in Callers :
                      /\ tr[u].pc = "append"
                      /\ tr[u].session_id = tr[t].session_id
                      => tr[u].timestamp >= tr[t].timestamp
        /\ (/\ tr[t].endpoint = "execute" /\ tr[t].pc # "done"
            /\ tr'[t].pc = "done"
            /\ IsCd(tr[t].command) \/ tr'[t].timedOut \/ tr'[t].fault # "none")
             => /\ heap'[tr[t].session].history = heap[tr[t].session].history
                /\ tr'[t].nExec = tr[t].nExec
        /\ tr[t].pc = "clear_history" /\ tr'[t].pc = "done"
             => SessionHistory(t)' = <<>>
        /\ tr[t].pc = "get_history" /\ tr'[t].pc = "done"
             => LET h == SessionHistory(t)
                    n == IF Len(h) <= 50 THEN Len(h) ELSE 50
                IN tr'[t].resp.history = SubSeq(h, Len(h) - n + 1, Len(h))
       ]_vars

(* C29: a step of a request made with one session id leaves the working    *)
(* directory and history of the sessions with other ids, and their         *)
(* registration, unchanged; a rejected request (empty command, invalid     *)
(* set_cwd directory) changes no session and creates none.                 *)
C29_SessionsIsolated ==
    [][\A t \in Callers :
        tr'[t] # tr[t]
        => /\ \A sid \in SessionIds \ {tr'[t].session_id} :
                 /\ terminal_sessions'[sid] = terminal_sessions[sid]
                 /\ terminal_sessions[sid] # NoObj
                      => heap'[terminal_sessions[sid]] = heap[terminal_sessions[sid]]
           /\ tr'[t].pc = "done" /\ tr'[t].resp.status = 400
                 => /\ heap' = heap /\ terminal_sessions' = terminal_sessions
                    /\ tr'[t].session = NoObj
       ]_vars

C29_Witness ==
    /\ terminal_sessions["default"] # NoObj /\ terminal_sessions["s2"] # NoObj
    /\ terminal_sessions["default"] # terminal_sessions["s2"]
    /\ heap[terminal_sessions["s2"]].working_dir = <<"/", "app", "/", "sub">>
    /\ heap[terminal_sessions["default"]].working_dir = <<"/", "app">>

(* C30: a session id is associated with one TerminalSession object at      *)
(* most: the object registered under an id is never replaced, and every    *)
(* request works on the object registered under its id.                    *)
C30_OneObjectPerId ==
    /\ [](\A t \in Callers :
            tr[t].session # NoObj
            => tr[t].session = terminal_sessions[tr[t].session_id])
    /\ [][\A sid \in SessionIds :
            terminal_sessions'[sid] # terminal_sessions[sid]
            => terminal_sessions[sid] = NoObj]_vars

====
